---- MODULE Spec2Model ----
(***************************************************************************)
(* Model of the train simulator: the engine TrainSimulation                *)
(* (src/simulation.py) driven by the timer callback and the key handlers   *)
(* of MainWindow (src/gui.py).                                             *)
(*                                                                         *)
(* Fixed-point units (the source computes in floats):                      *)
(*   time          0.1 s        (dt = 0.1 * simulation_speed)              *)
(*   position      0.0001 m                                                *)
(*   speed         0.00001 m/s  (= acceleration unit * time unit)          *)
(*   acceleration  0.0001 m/s^2                                            *)
(*   km/h values   0.01 km/h                                               *)
(*   PID gains     0.1                                                     *)
(*   jerk          0.0001 m/s^2 per 0.1 s                                  *)
(***************************************************************************)
EXTENDS Integers, Sequences, FiniteSets, TLC

VARIABLES
  sim,               \* the TrainSimulation object
  is_running,        \* MainWindow.is_running
  is_manual,         \* MainWindow.is_manual
  simulation_speed,  \* MainWindow.simulation_speed
  op,                \* history: the last operation, its inputs and message
  pre,               \* history: the engine before the last operation
  stop,              \* history: the last station stop of this run
  run,               \* operations counted against MaxRun
  controller,        \* the TrainSpeedController object with its PIDController
  control            \* history: the last call of compute_control

vars ==
  <<sim, is_running, is_manual, simulation_speed, op, pre, stop, run,
    controller, control>>

-----------------------------------------------------------------------------
(* Operating conditions: the values of TrainSimulation.status.             *)
Coasting == "Coasting"                  \* "正常运行：惰行"
Traction == "Traction"                  \* "正常运行：牵引"
Braking == "Braking"                    \* "正常运行：制动"
EmergencyBraking == "EmergencyBraking"  \* "ATP紧急制动"
PenaltyDelay == "PenaltyDelay"          \* "紧急制动罚时"
StationStop == "StationStop"            \* "停站"

\* status.startswith("正常运行")
IsNormal(status) == status \in {Coasting, Traction, Braking}

-----------------------------------------------------------------------------
(* Program constants, in the units above.                                  *)
InitialPosition == 216042803   \* 21604.2803 m
EmergencyDec == -11000         \* -1.1 m/s^2
PenaltyTime == 50              \* 5 s
DwellTime == 235               \* 23.5 s
MidBandLo == 228733200         \* 22873.32 m
MidBandHi == 228833200         \* 22883.32 m
EndBandLo == 242703100         \* 24270.31 m
EndBandHi == 242803100         \* 24280.31 m
DeparturePosition == 228833300 \* 22883.33 m
StopSpeed == 100000            \* speed*3.6 <= 3.6, i.e. 1 m/s
KeyStep == 1000                \* 0.1 m/s^2 per O / P key press

\* The speed multipliers offered by the speed combo box.
SpeedChoices == {1, 2, 5, 10}

-----------------------------------------------------------------------------
(* Curve tables.  The spreadsheets the engine loads are data outside the   *)
(* source; the tables below are fixtures with the layout load_data builds. *)

Max(a, b) == IF a >= b THEN a ELSE b
Min(a, b) == IF a <= b THEN a ELSE b

\* scipy interp1d(kind linear, bounds_error=False, fill_value=(first, last))
\* over the points pts = << <<x1, y1>>, ..., <<xn, yn>> >>, x increasing.
RECURSIVE Interp(_, _, _)
Interp(pts, x, i) ==
  IF x <= pts[i + 1][1] \/ i + 1 = Len(pts)
    THEN LET x0 == pts[i][1]
             y0 == pts[i][2]
             x1 == pts[i + 1][1]
             y1 == pts[i + 1][2]
         IN  IF y1 = y0 THEN y0
             ELSE y0 + ((y1 - y0) * (x - x0)) \div (x1 - x0)
    ELSE Interp(pts, x, i + 1)

\* Mutant: the end segments continued beyond the table instead of the fill.
Lookup_extrapolating(pts, x) == Interp(pts, x, 1)

Lookup(pts, x) ==
  IF x < pts[1][1] THEN pts[1][2]
  ELSE IF x > pts[Len(pts)][1] THEN pts[Len(pts)][2]
  ELSE Interp(pts, x, 1)

\* Rows (start, end, limit) of the ceiling table: position in 0.0001 m,
\* limit in 0.01 km/h.
CeilingRows ==
  << <<210000000, 226000000, 8000>>,
     <<226100000, 230000000, 6000>>,
     <<230100000, 241000000, 8000>>,
     <<241100000, 243000000, 4500>> >>

\* x_points.extend([start, end]); y_points.extend([limit] * 2)
RECURSIVE CeilingPoints(_)
CeilingPoints(rows) ==
  IF rows = <<>> THEN <<>>
  ELSE << <<rows[1][1], rows[1][3]>>, <<rows[1][2], rows[1][3]>> >>
         \o CeilingPoints(Tail(rows))

\* Traction capability: speed in 0.01 km/h -> acceleration in 0.0001 m/s^2.
TractionPoints == << <<0, 11000>>, <<4000, 11000>>, <<12000, 3000>> >>

\* Braking capability (negative accelerations, as the engine negates them).
BrakePoints == << <<0, -11000>>, <<8000, -11000>>, <<12000, -9000>> >>

\* speed * 3.6, in 0.01 km/h
SpeedKmh(speed) == (speed * 36) \div 10000

get_ceiling_speed(position) == Lookup(CeilingPoints(CeilingRows), position)

\* Target speed by position: position in 0.0001 m, speed in 0.01 km/h.
TargetPoints ==
  << <<216042803, 3000>>, <<216142803, 6000>>, <<228683200, 6000>>,
     <<228783200, 0>>, <<228883200, 6000>>, <<242653100, 6000>>,
     <<242753100, 0>> >>

get_target_speed(position) == Lookup(TargetPoints, position)

\* self.speed * 3.6 >= self.get_ceiling_speed()
OverCeiling(s) == s.speed * 36 >= get_ceiling_speed(s.position) * 10000

\* -(2.03 + 0.062 v + 0.0018 v^2) * 9.81 / 1000, v in km/h
get_resistance(vk) ==
  LET w == 20300 + (62 * vk) \div 10 + (((vk * vk) \div 100) * 18) \div 100
  IN  -((w * 981) \div 100000)

-----------------------------------------------------------------------------
(* The engine after construction: the event records empty, then reset().   *)
ResetState ==
  [ time |-> 0, position |-> InitialPosition, speed |-> 0,
    acceleration |-> 0, traction_acc |-> 0, brake_acc |-> 0,
    resistance_acc |-> 0, status |-> Coasting,
    emergency_brake_start |-> 0, stop_start |-> 0,
    actual_time |-> <<>>, number_1 |-> <<>>, position_counter |-> 0,
    actual_position |-> <<>>, number_2 |-> <<>>, speed_zero_counter |-> 0,
    data_sender |-> [connected |-> FALSE, written |-> 0],
    log |-> [kept |-> FALSE, rows |-> <<>>] ]

\* TrainSimulation.reset()
reset(s) ==
  [s EXCEPT !.time = 0, !.position = InitialPosition, !.speed = 0,
            !.acceleration = 0, !.traction_acc = 0, !.brake_acc = 0,
            !.resistance_acc = 0, !.status = Coasting,
            !.emergency_brake_start = 0, !.stop_start = 0]

\* specific_positions: 22878.32 m and 24275.31 m
SpecificPositions == <<228783200, 242753100>>

\* one round of the loop over specific_positions (i from 0)
check_position(s, i) ==
  IF s.position_counter <= i /\ s.position >= SpecificPositions[i + 1]
    THEN [s EXCEPT !.position_counter = @ + 1,
                   !.actual_time = Append(@, s.time),
                   !.number_1 = Append(@, s.position_counter + 1)]
    ELSE s

\* SimulationDataSender (src/network_client.py): connected, and written, the
\* number of snapshots handed to the socket.  A snapshot is given by the
\* keys of its dict.
RequiredKeys == {"time", "position", "speed", "acceleration", "status"}

\* the dict shanhou sends, and the dict of get_status()
EventKeys == {"actual_time", "number_1", "actual_position", "number_2"}
StatusKeys == RequiredKeys \cup {"target_speed", "ceiling_speed"}

\* Mutant: the snapshot handed to the socket whether connected or not.
send_data_unconditional(sender, simulation_data) ==
  IF RequiredKeys \subseteq simulation_data
    THEN [sender EXCEPT !.written = @ + 1]
    ELSE sender

\* send_data(simulation_data): returns at once when not connected; the
\* KeyError of a dict without one of the required keys is caught and the
\* snapshot dropped; otherwise the snapshot is written to the socket.
send_data(sender, simulation_data) ==
  IF ~sender.connected THEN sender
  ELSE IF RequiredKeys \subseteq simulation_data
    THEN [sender EXCEPT !.written = @ + 1]
    ELSE sender

handle_connected(sender) == [sender EXCEPT !.connected = TRUE]

handle_disconnected(sender) == [sender EXCEPT !.connected = FALSE]

\* the records shanhou keeps after integrating
record_events(s, old_speed) ==
  LET s1 == check_position(check_position(s, 0), 1)
  IN  IF old_speed > 0 /\ s1.speed = 0 /\ s1.speed_zero_counter < 2
        THEN [s1 EXCEPT !.speed_zero_counter = @ + 1,
                        !.actual_position = Append(@, s1.position),
                        !.number_2 = Append(@, s1.speed_zero_counter + 1)]
        ELSE s1

\* the row log_state writes for the engine s
LogRow(s) ==
  [ time |-> s.time, position |-> s.position,
    speed |-> SpeedKmh(s.speed), acceleration |-> s.acceleration,
    traction_acc |-> s.traction_acc, brake_acc |-> s.brake_acc,
    resistance_acc |-> s.resistance_acc, status |-> s.status,
    target_speed |-> get_target_speed(s.position),
    ceiling_speed |-> get_ceiling_speed(s.position) ]

\* Mutant: the log file opened for writing, not for appending.
log_state_rewriting(s) ==
  IF s.log.kept THEN [s EXCEPT !.log.rows = << LogRow(s) >>] ELSE s

\* log_state(): one row appended to the log file.  The engine never reads
\* the file back, so the model keeps its rows (the rows written since the
\* start state) only in the behaviours that look at them: those of LogSpec,
\* whose start states have kept set.  Elsewhere the file is left out.
log_state(s) ==
  IF s.log.kept THEN [s EXCEPT !.log.rows = Append(@, LogRow(s))] ELSE s

\* Mutant: the integration without the floor at 0.
shanhou_no_floor(s, dt) ==
  LET old_speed == s.speed
      new_speed == old_speed + s.acceleration * dt
  IN  record_events(
        [s EXCEPT !.speed = new_speed,
                  !.position = @ + ((old_speed + new_speed) * dt) \div 200],
        old_speed)

\* Trapezoidal integration, the event records, and the records sent.
shanhou(s, dt) ==
  LET old_speed == s.speed
      new_speed == Max(0, old_speed + s.acceleration * dt)
      moved ==
        record_events(
          [s EXCEPT !.speed = new_speed,
                    !.position = @ + ((old_speed + new_speed) * dt) \div 200],
          old_speed)
  IN  log_state([moved EXCEPT !.data_sender = send_data(@, EventKeys)])

check_station_stop(s) ==
  \/ MidBandLo <= s.position /\ s.position <= MidBandHi
  \/ EndBandLo <= s.position /\ s.position <= EndBandHi

-----------------------------------------------------------------------------
(* TrainSimulation.update(dt, control_acc).  control_acc is <<>> for None  *)
(* and <<a>> for the value a.  Each branch yields the engine state after   *)
(* the call and the message of the returned status.                        *)

\* Mutant: the ATP check skipped while the operator holds Traction.
atp_trigger_not_in_traction(s) ==
  OverCeiling(s) /\ s.status \notin {EmergencyBraking, PenaltyDelay, Traction}

\* speed over the ceiling while neither braking for ATP nor in the penalty
atp_trigger(s) ==
  OverCeiling(s) /\ s.status # EmergencyBraking /\ s.status # PenaltyDelay

\* Mutant: the emergency brake applies the brake command in force instead of
\* the fixed rate.
EmergencyBrakingStep_brake_command(s, dt, triggered) ==
  IF s.speed > 0
    THEN [ sim |-> shanhou([s EXCEPT
                     !.resistance_acc = get_resistance(SpeedKmh(s.speed)),
                     !.traction_acc = 0,
                     !.acceleration =
                        -s.brake_acc + get_resistance(SpeedKmh(s.speed))], dt),
           message |-> IF triggered THEN "atp" ELSE "none" ]
    ELSE [ sim |-> shanhou([s EXCEPT
                     !.status = PenaltyDelay,
                     !.speed = 0,
                     !.acceleration = 0,
                     !.brake_acc = 0,
                     !.traction_acc = 0,
                     !.emergency_brake_start = s.time], dt),
           message |-> "penalty_start" ]

\* Mutant: the penalty starts on the tick that brings the speed to 0, timed
\* from the tick before.
EmergencyBrakingStep_early_penalty(s, dt, triggered) ==
  IF s.speed + EmergencyDec * dt > 0
    THEN [ sim |-> shanhou([s EXCEPT
                     !.resistance_acc = get_resistance(SpeedKmh(s.speed)),
                     !.traction_acc = 0,
                     !.acceleration = EmergencyDec], dt),
           message |-> IF triggered THEN "atp" ELSE "none" ]
    ELSE [ sim |-> [s EXCEPT
                     !.status = PenaltyDelay,
                     !.speed = 0,
                     !.acceleration = 0,
                     !.brake_acc = 0,
                     !.traction_acc = 0,
                     !.emergency_brake_start = s.time - dt],
           message |-> "penalty_start" ]

\* status == "ATP紧急制动"
EmergencyBrakingStep(s, dt, triggered) ==
  IF s.speed > 0
    THEN [ sim |-> shanhou([s EXCEPT
                     !.resistance_acc = get_resistance(SpeedKmh(s.speed)),
                     !.traction_acc = 0,
                     !.acceleration = EmergencyDec], dt),
           message |-> IF triggered THEN "atp" ELSE "none" ]
    ELSE [ sim |-> shanhou([s EXCEPT
                     !.status = PenaltyDelay,
                     !.speed = 0,
                     !.acceleration = 0,
                     !.brake_acc = 0,
                     !.traction_acc = 0,
                     !.emergency_brake_start = s.time], dt),
           message |-> "penalty_start" ]

\* Mutant: the penalty ends only once more than 5 s have passed.
PenaltyDelayStep_strict(s, dt) ==
  IF s.time - s.emergency_brake_start > PenaltyTime
    THEN [ sim |-> shanhou([s EXCEPT !.status = Coasting], dt),
           message |-> "penalty_end" ]
    ELSE [ sim |-> shanhou(s, dt), message |-> "penalty_wait" ]

\* Mutant: the penalty ends in Traction.
PenaltyDelayStep_resume_traction(s, dt) ==
  IF s.time - s.emergency_brake_start >= PenaltyTime
    THEN [ sim |-> shanhou([s EXCEPT !.status = Traction], dt),
           message |-> "penalty_end" ]
    ELSE [ sim |-> shanhou(s, dt), message |-> "penalty_wait" ]

\* status == "紧急制动罚时"
PenaltyDelayStep(s, dt) ==
  IF s.time - s.emergency_brake_start >= PenaltyTime
    THEN [ sim |-> shanhou([s EXCEPT !.status = Coasting], dt),
           message |-> "penalty_end" ]
    ELSE [ sim |-> shanhou(s, dt), message |-> "penalty_wait" ]

\* Mutant: the dwell ends where the train stands.
StationStopStep_in_place(s, dt) ==
  IF s.time - s.stop_start >= DwellTime
    THEN [ sim |-> shanhou([s EXCEPT !.status = Coasting], dt),
           message |-> "stop_end" ]
    ELSE [ sim |-> shanhou(s, dt), message |-> "stop_wait" ]

\* status == "停站"
StationStopStep(s, dt) ==
  IF s.time - s.stop_start >= DwellTime
    THEN [ sim |-> shanhou([s EXCEPT !.position = DeparturePosition,
                                     !.status = Coasting], dt),
           message |-> "stop_end" ]
    ELSE [ sim |-> shanhou(s, dt), message |-> "stop_wait" ]

\* the terminal band: 24270.31 <= position <= 24280.31
TerminalStopStep(s, dt) ==
  [ sim |-> shanhou([s EXCEPT !.status = StationStop,
                              !.speed = 0,
                              !.acceleration = 0,
                              !.brake_acc = 0,
                              !.traction_acc = 0], dt),
    message |-> "terminal" ]

\* the intermediate band, speed * 3.6 <= 3.6
IntermediateStopStep(s, dt) ==
  [ sim |-> shanhou([s EXCEPT !.status = StationStop,
                              !.speed = 0,
                              !.acceleration = 0,
                              !.brake_acc = 0,
                              !.traction_acc = 0,
                              !.stop_start = s.time], dt),
    message |-> "stop_enter" ]

\* Mutant: the traction command applied without the running resistance.
NormalAcceleration_no_resistance(s, resistance, control_acc) ==
  IF control_acc # <<>> THEN control_acc[1]
  ELSE IF s.status = Traction THEN s.traction_acc
  ELSE IF s.status = Braking
    THEN IF s.speed = 0 THEN 0 ELSE -s.brake_acc + resistance
  ELSE IF s.speed = 0 THEN 0 ELSE resistance

\* the acceleration of a tick of normal running
\* Mutant: the brake command added instead of subtracted.
NormalAcceleration_brake_sign(s, resistance, control_acc) ==
  IF control_acc # <<>> THEN control_acc[1]
  ELSE IF s.status = Traction THEN s.traction_acc + resistance
  ELSE IF s.status = Braking
    THEN IF s.speed = 0 THEN 0 ELSE s.brake_acc + resistance
  ELSE IF s.speed = 0 THEN 0 ELSE resistance

NormalAcceleration(s, resistance, control_acc) ==
  IF control_acc # <<>> THEN control_acc[1]
  ELSE IF s.status = Traction THEN s.traction_acc + resistance
  ELSE IF s.status = Braking
    THEN IF s.speed = 0 THEN 0 ELSE -s.brake_acc + resistance
  ELSE IF s.speed = 0 THEN 0 ELSE resistance

RunningStep(s, dt, control_acc) ==
  LET resistance == get_resistance(SpeedKmh(s.speed))
  IN  [ sim |-> shanhou([s EXCEPT
                  !.resistance_acc = resistance,
                  !.acceleration = NormalAcceleration(s, resistance, control_acc)],
                  dt),
        message |-> "none" ]

\* the final else of update: station check, then normal running
NormalStep(s, dt, control_acc) ==
  IF check_station_stop(s)
       /\ EndBandLo <= s.position /\ s.position <= EndBandHi
    THEN TerminalStopStep(s, dt)
  ELSE IF check_station_stop(s) /\ s.speed <= StopSpeed
    THEN IntermediateStopStep(s, dt)
  ELSE RunningStep(s, dt, control_acc)

\* Mutant: a supplied control_acc is applied before the penalty is looked at.
update_control_in_penalty(s0, dt, control_acc) ==
  LET s1 == [s0 EXCEPT !.time = @ + dt]
      triggered == atp_trigger(s1)
      s == IF triggered THEN [s1 EXCEPT !.status = EmergencyBraking] ELSE s1
  IN  IF s.status = EmergencyBraking THEN EmergencyBrakingStep(s, dt, triggered)
      ELSE IF s.status = PenaltyDelay /\ control_acc = <<>>
        THEN PenaltyDelayStep(s, dt)
      ELSE IF s.status = StationStop THEN StationStopStep(s, dt)
      ELSE NormalStep(s, dt, control_acc)

\* Every branch ends with send_data(status) after its call of shanhou.
update(s0, dt, control_acc) ==
  LET s1 == [s0 EXCEPT !.time = @ + dt]
      triggered == atp_trigger(s1)
      s == IF triggered THEN [s1 EXCEPT !.status = EmergencyBraking] ELSE s1
      step ==
        IF s.status = EmergencyBraking
          THEN EmergencyBrakingStep(s, dt, triggered)
        ELSE IF s.status = PenaltyDelay THEN PenaltyDelayStep(s, dt)
        ELSE IF s.status = StationStop THEN StationStopStep(s, dt)
        ELSE NormalStep(s, dt, control_acc)
  IN  [step EXCEPT !.sim.data_sender = send_data(@, StatusKeys)]

\* Mutant: the traction command accepted in any condition.
set_traction_acc_unguarded(s, value) ==
  [s EXCEPT !.traction_acc =
     Max(0, Min(value, Lookup(TractionPoints, SpeedKmh(s.speed))))]

set_traction_acc(s, value) ==
  IF s.status # Traction THEN s
  ELSE [s EXCEPT !.traction_acc =
          Max(0, Min(value, Lookup(TractionPoints, SpeedKmh(s.speed))))]

\* Mutant: the brake command bounded from above only.
set_brake_acc_no_lower_bound(s, value) ==
  IF s.status # Braking THEN s
  ELSE [s EXCEPT !.brake_acc =
          Min(value, -Lookup(BrakePoints, SpeedKmh(s.speed)))]

set_brake_acc(s, value) ==
  IF s.status # Braking THEN s
  ELSE [s EXCEPT !.brake_acc =
          Max(0, Min(value, -Lookup(BrakePoints, SpeedKmh(s.speed))))]

-----------------------------------------------------------------------------
(* MainWindow key handlers, acting on the engine.                          *)

\* Mutant: the traction key leaves the brake command in force.
handle_traction_key_keeps_brake(s) ==
  IF s.status = Traction THEN s
  ELSE IF s.status = Braking THEN [s EXCEPT !.status = Coasting]
  ELSE IF s.status = Coasting THEN [s EXCEPT !.status = Traction]
  ELSE s

handle_traction_key(s) ==
  IF s.status = Traction THEN s
  ELSE IF s.status = Braking THEN [s EXCEPT !.status = Coasting, !.brake_acc = 0]
  ELSE IF s.status = Coasting THEN [s EXCEPT !.status = Traction]
  ELSE s

\* Mutant: the coast key acting in every condition.
handle_coasting_key_any_status(s) ==
  [s EXCEPT !.traction_acc = 0, !.brake_acc = 0, !.status = Coasting]

handle_coasting_key(s) ==
  IF IsNormal(s.status)
    THEN [s EXCEPT !.traction_acc = 0, !.brake_acc = 0, !.status = Coasting]
    ELSE s

\* Mutant: the brake key takes Traction straight to Braking.
handle_brake_key_direct(s) ==
  IF s.status = Braking THEN s
  ELSE IF s.status \in {Traction, Coasting}
    THEN [s EXCEPT !.status = Braking, !.traction_acc = 0]
  ELSE s

handle_brake_key(s) ==
  IF s.status = Braking THEN s
  ELSE IF s.status = Traction
    THEN [s EXCEPT !.status = Coasting, !.traction_acc = 0]
  ELSE IF s.status = Coasting THEN [s EXCEPT !.status = Braking]
  ELSE s

handle_increase_key(s) ==
  IF s.status = Traction THEN set_traction_acc(s, s.traction_acc + KeyStep)
  ELSE IF s.status = Braking THEN set_brake_acc(s, s.brake_acc + KeyStep)
  ELSE s

handle_decrease_key(s) ==
  IF s.status = Traction
    THEN set_traction_acc(s, Max(0, s.traction_acc - KeyStep))
  ELSE IF s.status = Braking
    THEN set_brake_acc(s, Max(0, s.brake_acc - KeyStep))
  ELSE s

Keys == {"Q", "W", "E", "O", "P"}

KeyEffect(k, s) ==
  CASE k = "Q" -> handle_traction_key(s)
    [] k = "W" -> handle_coasting_key(s)
    [] k = "E" -> handle_brake_key(s)
    [] k = "O" -> handle_increase_key(s)
    [] k = "P" -> handle_decrease_key(s)

-----------------------------------------------------------------------------
(* The speed controller: TrainSpeedController and its PIDController        *)
(* (src/TrainSimulation_Code/pid.py).                                      *)

Abs(a) == IF a >= 0 THEN a ELSE -a

\* np.sign
Sign(a) == IF a > 0 THEN 1 ELSE IF a < 0 THEN -1 ELSE 0

\* km/h (0.01 km/h) to m/s (0.00001 m/s): value / 3.6
SpeedMs(kmh) == (kmh * 10000) \div 36

\* TrainSpeedController(): the PID with kp 0.8, ki 0.2, kd 0.3, output limits
\* (-1.1, 1.1), anti-windup on, after reset(); last_acc 0, max_jerk 0.75
ControllerInit ==
  [ kp |-> 8, ki |-> 2, kd |-> 3,
    output_limits |-> <<-11000, 11000>>, anti_windup |-> TRUE,
    last_error |-> 0, integral |-> 0,
    last_acc |-> 0, max_jerk |-> 750 ]

\* PIDController.clamp (output_limits is <<>> for None)
clamp(c, value) ==
  IF c.output_limits = <<>> THEN value
  ELSE Max(c.output_limits[1], Min(value, c.output_limits[2]))

\* Mutant: the integral accumulated without the anti-windup clamp.
integral_step_unclamped(c, error, dt) ==
  IF c.ki > 0
    THEN c.integral + (c.ki * (error + c.last_error) * dt) \div 2000
    ELSE c.integral

\* the integral after the integral step of compute
integral_step(c, error, dt) ==
  IF c.ki > 0
    THEN LET potential_integral ==
               c.integral + (c.ki * (error + c.last_error) * dt) \div 2000
         IN  IF c.anti_windup /\ c.output_limits # <<>>
               THEN Max(c.output_limits[1],
                        Min(potential_integral, c.output_limits[2]))
               ELSE potential_integral
    ELSE c.integral

\* PIDController.compute(setpoint, measurement, dt), speeds in m/s.  fault
\* names the statement that raises: "none", "error" (the subtraction that
\* forms the error) or "log" (the debug line after the state is updated).
\* Yields the controller after the call and the value returned.
compute(c, setpoint, measurement, dt, fault) ==
  LET error == setpoint - measurement
      P == (c.kp * error) \div 100
      I == integral_step(c, error, dt)
      D == IF c.kd > 0 /\ dt > 0
             THEN (c.kd * (error - c.last_error)) \div (10 * dt)
             ELSE 0
      done == [c EXCEPT !.integral = I, !.last_error = error]
  IN  CASE fault = "error" -> [c |-> c, output |-> clamp(c, 0)]
        [] fault = "log" -> [c |-> done, output |-> clamp(c, 0)]
        [] OTHER -> [c |-> done, output |-> clamp(c, P + I + D)]

\* TrainSpeedController.compute_control(target_speed, current_speed, dt),
\* speeds in km/h.  fault names the statement of compute_control that
\* raises: "none", "convert" (the unit conversion) or "log" (the debug line
\* after last_acc is updated); pid_fault is the fault inside compute.
compute_control(c, target_speed, current_speed, dt, pid_fault, fault) ==
  LET pid == compute(c, SpeedMs(target_speed), SpeedMs(current_speed), dt,
                     pid_fault)
      raw_acc == pid.output
      max_change == c.max_jerk * dt
      acc_change == IF Abs(raw_acc - c.last_acc) > max_change
                      THEN max_change * Sign(raw_acc - c.last_acc)
                      ELSE raw_acc - c.last_acc
      done == [pid.c EXCEPT !.last_acc = c.last_acc + acc_change]
  IN  CASE fault = "convert" -> [c |-> c, raw_acc |-> raw_acc, output |-> 0]
        [] fault = "log" -> [c |-> done, raw_acc |-> raw_acc, output |-> 0]
        [] OTHER -> [c |-> done, raw_acc |-> raw_acc, output |-> done.last_acc]

\* TrainSpeedController.reset()
controller_reset(c) ==
  [c EXCEPT !.last_error = 0, !.integral = 0, !.last_acc = 0]

\* Mutant: the controller state cleared whenever a parameter is set.
set_control_params_reset(c, kp, ki, kd, max_jerk) ==
  [c EXCEPT !.kp = IF kp # <<>> THEN kp[1] ELSE @,
            !.ki = IF ki # <<>> THEN ki[1] ELSE @,
            !.kd = IF kd # <<>> THEN kd[1] ELSE @,
            !.max_jerk = IF max_jerk # <<>> THEN max_jerk[1] ELSE @,
            !.last_error = 0, !.integral = 0, !.last_acc = 0]

\* TrainSpeedController.set_control_params; <<>> is None
set_control_params(c, kp, ki, kd, max_jerk) ==
  [c EXCEPT !.kp = IF kp # <<>> THEN kp[1] ELSE @,
            !.ki = IF ki # <<>> THEN ki[1] ELSE @,
            !.kd = IF kd # <<>> THEN kd[1] ELSE @,
            !.max_jerk = IF max_jerk # <<>> THEN max_jerk[1] ELSE @]

\* TrainSpeedController.get_control_params(): the dict returned
get_control_params(c) ==
  [kp |-> c.kp, ki |-> c.ki, kd |-> c.kd, max_jerk |-> c.max_jerk]

\* The last operation on the controller: its name, its arguments and the
\* controller it was called on.
Called(call, params, was) == [call |-> call, params |-> params, was |-> was]

\* No call of compute_control yet in this run of the controller.
NoControl ==
  [ name |-> "none", dt |-> 0, error |-> 0, raw_acc |-> 0, output |-> 0,
    previous |-> <<>>, fault |-> "none", pid_fault |-> "none",
    before |-> ControllerInit,
    last |-> Called("none", <<>>, ControllerInit) ]

-----------------------------------------------------------------------------
(* Bounds of the exploration.                                              *)

\* operations explored per behaviour, not counting the ticks spent in
\* EmergencyBraking, PenaltyDelay and StationStop, which run to their end
MaxRun == 4

\* control_acc values the speed controller hands to update (0.0001 m/s^2)
ControlChoices == {-11000, 0, 11000}

(* Start states.  A start state is the engine after reset() followed by a  *)
(* recorded automatic-mode drive: a list of segments <<n, dt, control_acc>>,*)
(* each n calls update(dt, control_acc).  The drives bring the train to    *)
(* the places the rules of update are about; Arrival gives the state each  *)
(* drive ends in, and DriveSpec / DriveArrives replay the drives tick by   *)
(* tick from the reset state to establish it.                              *)

\* to 22873.13 m at 1.1 m/s, just short of the intermediate band
DriveToIntermediate ==
  << <<14, 10, 11000>>, <<68, 10, 0>>, <<13, 10, -11000>>, <<6, 10, 0>> >>

\* through the intermediate band without stopping, to 24270.13 m at 1.1 m/s,
\* just short of the terminal band
DriveToTerminal ==
  DriveToIntermediate \o
  << <<12, 10, 0>>, <<10, 10, 11000>>, <<103, 10, 0>>, <<10, 10, -11000>>,
     <<5, 10, 0>> >>

\* the same after a stop at the intermediate station (entered at 103.0 s,
\* left at 127.0 s), to 24269.88 m at 1.1 m/s
DriveToTerminalAfterStop ==
  DriveToIntermediate \o
  << <<1, 10, -11000>>, <<26, 10, 0>>, <<11, 10, 11000>>, <<103, 10, 0>>,
     <<10, 10, -11000>>, <<7, 10, 0>> >>

\* to 24108.98 m at 13.2 m/s (47.52 km/h), on the ramp where the ceiling
\* falls from 80 to 45 km/h
DriveToCeiling ==
  DriveToIntermediate \o
  << <<12, 10, 0>>, <<10, 10, 11000>>, <<88, 10, 0>>, <<4, 10, -11000>>,
     <<5, 10, 11000>> >>

\* on under the 45 km/h ceiling, where the ATP brakes the train to 1.1 m/s
DriveToEmergency == DriveToCeiling \o << <<12, 10, 0>> >>

Drives ==
  { <<>>, DriveToIntermediate, DriveToTerminal, DriveToTerminalAfterStop,
    DriveToCeiling, DriveToEmergency }

Arrival(drive) ==
  CASE drive = <<>> -> ResetState
    [] drive = DriveToIntermediate ->
         [ResetState EXCEPT !.time = 1010, !.position = 228731303,
                            !.speed = 110000, !.resistance_acc = -225]
    [] drive = DriveToTerminal ->
         [ResetState EXCEPT !.time = 2410, !.position = 242701303,
                            !.speed = 110000, !.resistance_acc = -225,
                            !.actual_time = <<1060>>, !.number_1 = <<1>>,
                            !.position_counter = 1]
    [] drive = DriveToTerminalAfterStop ->
         [ResetState EXCEPT !.time = 2590, !.position = 242698800,
                            !.speed = 110000, !.resistance_acc = -225,
                            !.stop_start = 1030,
                            !.actual_time = <<1270>>, !.number_1 = <<1>>,
                            !.position_counter = 1,
                            !.actual_position = <<228736803>>,
                            !.number_2 = <<1>>, !.speed_zero_counter = 1]
    [] drive = DriveToCeiling ->
         [ResetState EXCEPT !.time = 2200, !.position = 241089803,
                            !.speed = 1320000, !.acceleration = 11000,
                            !.resistance_acc = -799,
                            !.actual_time = <<1060>>, !.number_1 = <<1>>,
                            !.position_counter = 1]
    [] drive = DriveToEmergency ->
         [ResetState EXCEPT !.time = 2320, !.position = 242008303,
                            !.speed = 110000, !.acceleration = -11000,
                            !.resistance_acc = -258,
                            !.status = EmergencyBraking,
                            !.actual_time = <<1060>>, !.number_1 = <<1>>,
                            !.position_counter = 1]

RECURSIVE DriveLength(_)
DriveLength(drive) ==
  IF drive = <<>> THEN 0 ELSE drive[1][1] + DriveLength(Tail(drive))

\* the segment of the drive that tick number i (from 0) belongs to
RECURSIVE SegmentAt(_, _)
SegmentAt(drive, i) ==
  IF i < drive[1][1] THEN drive[1] ELSE SegmentAt(Tail(drive), i - drive[1][1])

\* The station stop a behaviour has seen last: the band it was entered in,
\* the simulation time of the tick that entered it, and whether a tick has
\* ended it.
NoStop == [band |-> "none", entered |-> 0, left |-> FALSE]

StopAfter(before, result) ==
  CASE result.message = "terminal" ->
         [band |-> "terminal", entered |-> result.sim.time, left |-> FALSE]
    [] result.message = "stop_enter" ->
         [band |-> "intermediate", entered |-> result.sim.time, left |-> FALSE]
    [] result.message = "stop_end" -> [before EXCEPT !.left = TRUE]
    [] OTHER -> before

NoOp(name) ==
  [name |-> name, dt |-> 0, control_acc |-> <<>>, message |-> "none",
   value |-> 0]

Init ==
  \E drive \in Drives :
    /\ sim = Arrival(drive)
    /\ is_running = (drive # <<>>)
    /\ is_manual \in (IF drive = <<>> THEN {TRUE} ELSE BOOLEAN)
    /\ simulation_speed \in (IF drive = <<>> THEN {1} ELSE SpeedChoices)
    /\ op = NoOp("init")
    /\ pre = sim
    /\ stop = (IF drive = DriveToTerminalAfterStop
                THEN [band |-> "intermediate", entered |-> 1030, left |-> TRUE]
                ELSE NoStop)
    /\ run = 0
    /\ controller = ControllerInit
    /\ control = NoControl

-----------------------------------------------------------------------------
(* MainWindow operations.                                                  *)

\* Mutant: the timer callback stops the simulation when the penalty begins.
UpdateSimulation_stop_on_penalty ==
  /\ is_running
  /\ IsNormal(sim.status) => run < MaxRun
  /\ \E control_acc \in (IF is_manual THEN {<<>>}
                         ELSE {<<a>> : a \in ControlChoices}) :
       LET dt == simulation_speed
           result == update(sim, dt, control_acc)
       IN  /\ sim' = result.sim
           /\ is_running' = (result.message \notin {"terminal", "penalty_start"})
           /\ op' = [name |-> "update", dt |-> dt, control_acc |-> control_acc,
                     message |-> result.message, value |-> 0]
           /\ stop' = StopAfter(stop, result)
  /\ pre' = sim
  /\ run' = IF IsNormal(sim.status) THEN run + 1 ELSE run
  /\ UNCHANGED <<is_manual, simulation_speed, controller, control>>

\* update_simulation: the timer callback
UpdateSimulation ==
  /\ is_running
  /\ IsNormal(sim.status) => run < MaxRun
  /\ \E control_acc \in (IF is_manual THEN {<<>>}
                         ELSE {<<a>> : a \in ControlChoices}) :
       LET dt == simulation_speed
           result == update(sim, dt, control_acc)
       IN  /\ sim' = result.sim
           /\ is_running' = (result.message # "terminal")
           /\ op' = [name |-> "update", dt |-> dt, control_acc |-> control_acc,
                     message |-> result.message, value |-> 0]
           /\ stop' = StopAfter(stop, result)
  /\ pre' = sim
  /\ run' = IF IsNormal(sim.status) THEN run + 1 ELSE run
  /\ UNCHANGED <<is_manual, simulation_speed, controller, control>>

\* keyPressEvent: ignored unless running in manual mode
KeyPress(k) ==
  LET after == IF is_running /\ is_manual THEN KeyEffect(k, sim) ELSE sim
  IN  /\ run < MaxRun
      /\ sim' = after
      /\ op' = NoOp(k)
      /\ pre' = sim
      /\ run' = run + 1
      /\ UNCHANGED <<is_running, is_manual, simulation_speed, stop,
                     controller, control>>

StartSimulation ==
  /\ ~is_running
  /\ run < MaxRun
  /\ is_running' = TRUE
  /\ op' = NoOp("start")
  /\ pre' = sim
  /\ run' = run + 1
  /\ UNCHANGED <<sim, is_manual, simulation_speed, stop, controller, control>>

StopSimulation ==
  /\ is_running
  /\ run < MaxRun
  /\ is_running' = FALSE
  /\ op' = NoOp("stop")
  /\ pre' = sim
  /\ run' = run + 1
  /\ UNCHANGED <<sim, is_manual, simulation_speed, stop, controller, control>>

\* reset_simulation (the button is enabled while the simulation is stopped)
ResetSimulation ==
  /\ ~is_running
  /\ run < MaxRun
  /\ sim' = reset(sim)
  /\ op' = NoOp("reset")
  /\ pre' = sim
  /\ stop' = NoStop
  /\ run' = run + 1
  /\ controller' = controller_reset(controller)
  /\ control' = [NoControl EXCEPT !.last = Called("reset", <<>>, controller)]
  /\ UNCHANGED <<is_running, is_manual, simulation_speed>>

\* change_drive_mode (the combo box is enabled while stopped)
ChangeDriveMode(manual) ==
  /\ ~is_running
  /\ run < MaxRun
  /\ is_manual' = manual
  /\ op' = NoOp("mode")
  /\ pre' = sim
  /\ run' = run + 1
  /\ UNCHANGED <<sim, is_running, simulation_speed, stop, controller, control>>

\* update_simulation_speed (the combo box is enabled while stopped)
UpdateSimulationSpeed(v) ==
  /\ ~is_running
  /\ run < MaxRun
  /\ simulation_speed' = v
  /\ op' = NoOp("speed")
  /\ pre' = sim
  /\ run' = run + 1
  /\ UNCHANGED <<sim, is_running, is_manual, stop, controller, control>>

Next ==
  \/ UpdateSimulation
  \/ \E k \in Keys : KeyPress(k)
  \/ StartSimulation
  \/ StopSimulation
  \/ ResetSimulation
  \/ \E manual \in BOOLEAN : ChangeDriveMode(manual)
  \/ \E v \in SpeedChoices : UpdateSimulationSpeed(v)

Spec == Init /\ [][Next]_vars

-----------------------------------------------------------------------------
(* The engine's command interface called directly: set_traction_acc and    *)
(* set_brake_acc with any value in any condition, between the ticks and    *)
(* key presses of a running simulation.                                    *)

\* values handed to the setters (0.0001 m/s^2): negative, zero, inside the
\* curves, above the traction curve at 47.52 km/h, above both curves
CommandValues == {-5000, 0, 4000, 10500, 20000}

SetTractionAcc(value) ==
  /\ run < MaxRun
  /\ sim' = set_traction_acc(sim, value)
  /\ op' = [NoOp("set_traction_acc") EXCEPT !.value = value]
  /\ pre' = sim
  /\ run' = run + 1
  /\ UNCHANGED <<is_running, is_manual, simulation_speed, stop,
                 controller, control>>

SetBrakeAcc(value) ==
  /\ run < MaxRun
  /\ sim' = set_brake_acc(sim, value)
  /\ op' = [NoOp("set_brake_acc") EXCEPT !.value = value]
  /\ pre' = sim
  /\ run' = run + 1
  /\ UNCHANGED <<is_running, is_manual, simulation_speed, stop,
                 controller, control>>

\* Places of update where a call can raise: the ceiling lookup of the ATP
\* check, and the log write that ends shanhou.
FaultPoints == {"get_ceiling_speed", "log_state"}

\* The engine update leaves behind when the call at point raises and the
\* except clause returns the error result.
update_fault(s0, dt, control_acc, point) ==
  IF point = "get_ceiling_speed"
    THEN [s0 EXCEPT !.time = @ + dt]
    ELSE [update(s0, dt, control_acc).sim EXCEPT
            !.data_sender = s0.data_sender, !.log = s0.log]

\* update_simulation when update returns an error result: the callback
\* raises and stops the simulation
UpdateSimulationFault(point) ==
  /\ is_running
  /\ run < MaxRun
  /\ \E control_acc \in (IF is_manual THEN {<<>>}
                         ELSE {<<a>> : a \in ControlChoices}) :
       LET dt == simulation_speed
       IN  /\ sim' = update_fault(sim, dt, control_acc, point)
           /\ op' = [name |-> "update_fault", dt |-> dt,
                     control_acc |-> control_acc, message |-> "error",
                     value |-> 0]
           /\ stop' = IF point = "log_state"
                        THEN StopAfter(stop, update(sim, dt, control_acc))
                        ELSE stop
  /\ is_running' = FALSE
  /\ pre' = sim
  /\ run' = run + 1
  /\ UNCHANGED <<is_manual, simulation_speed, controller, control>>

EngineNext ==
  \/ UpdateSimulation
  \/ \E point \in FaultPoints : UpdateSimulationFault(point)
  \/ \E k \in Keys : KeyPress(k)
  \/ \E value \in CommandValues : SetTractionAcc(value)
  \/ \E value \in CommandValues : SetBrakeAcc(value)

EngineSpec == Init /\ [][EngineNext]_vars

-----------------------------------------------------------------------------
(* The engine with a consumer of its snapshots coming and going: the ticks *)
(* of Spec interleaved with the connected and disconnected signals of the  *)
(* sender's socket.  The signals and the timer callback run *)
(* on the one event loop, so a signal falls between two ticks.              *)

HandleConnected ==
  /\ run < MaxRun
  /\ ~sim.data_sender.connected
  /\ sim' = [sim EXCEPT !.data_sender = handle_connected(@)]
  /\ op' = NoOp("connected")
  /\ pre' = sim
  /\ run' = run + 1
  /\ UNCHANGED <<is_running, is_manual, simulation_speed, stop, controller,
                 control>>

HandleDisconnected ==
  /\ run < MaxRun
  /\ sim.data_sender.connected
  /\ sim' = [sim EXCEPT !.data_sender = handle_disconnected(@)]
  /\ op' = NoOp("disconnected")
  /\ pre' = sim
  /\ run' = run + 1
  /\ UNCHANGED <<is_running, is_manual, simulation_speed, stop, controller,
                 control>>

\* the train about to stop at the intermediate station or to pass the
\* ceiling speed, the simulation running at 10x
SenderInit ==
  \E drive \in {DriveToIntermediate, DriveToCeiling} :
    /\ sim = Arrival(drive)
    /\ is_running = TRUE
    /\ is_manual \in BOOLEAN
    /\ simulation_speed = 10
    /\ op = NoOp("init")
    /\ pre = sim
    /\ stop = NoStop
    /\ run = 0
    /\ controller = ControllerInit
    /\ control = NoControl

SenderNext ==
  \/ UpdateSimulation
  \/ HandleConnected
  \/ HandleDisconnected

SenderSpec == SenderInit /\ [][SenderNext]_vars

-----------------------------------------------------------------------------
(* The engine with its log file kept: the operations of the window and the *)
(* faulting ticks, from the train about to stop at the intermediate        *)
(* station or to pass the ceiling speed, with the rows log_state writes    *)
(* from there on held in sim.log.rows.                                      *)

LogInit ==
  \E drive \in {DriveToIntermediate, DriveToCeiling} :
    /\ sim = [Arrival(drive) EXCEPT !.log.kept = TRUE]
    /\ is_running = TRUE
    /\ is_manual \in BOOLEAN
    /\ simulation_speed = 10
    /\ op = NoOp("init")
    /\ pre = sim
    /\ stop = NoStop
    /\ run = 0
    /\ controller = ControllerInit
    /\ control = NoControl

LogNext ==
  \/ UpdateSimulation
  \/ \E point \in FaultPoints : UpdateSimulationFault(point)
  \/ \E k \in Keys : KeyPress(k)
  \/ StartSimulation
  \/ StopSimulation
  \/ ResetSimulation

LogSpec == LogInit /\ [][LogNext]_vars

-----------------------------------------------------------------------------
(* The running simulation left to its timer: from the train about to pass  *)
(* the ceiling speed, or already braked by the ATP, the timer callback     *)
(* and the keys.  The QTimer started by start_simulation fires for as long *)
(* as the simulation runs, so the callback is taken whenever it stays      *)
(* enabled: weak fairness on UpdateSimulation.                             *)

LiveInit ==
  \E drive \in {DriveToCeiling, DriveToEmergency} :
    /\ sim = Arrival(drive)
    /\ is_running = TRUE
    /\ is_manual \in BOOLEAN
    /\ simulation_speed \in SpeedChoices
    /\ op = NoOp("init")
    /\ pre = sim
    /\ stop = NoStop
    /\ run = 0
    /\ controller = ControllerInit
    /\ control = NoControl

LiveNext ==
  \/ UpdateSimulation
  \/ \E k \in Keys : KeyPress(k)

\* the guard of UpdateSimulation; an enabled callback always changes the
\* state, because every call of update advances the time
TickEnabled == is_running /\ (IsNormal(sim.status) => run < MaxRun)

\* WF_vars(UpdateSimulation), with ENABLED <<UpdateSimulation>>_vars written
\* out as TickEnabled
TimerFires == []<>(~TickEnabled) \/ []<><<UpdateSimulation>>_vars

LiveSpec == LiveInit /\ [][LiveNext]_vars /\ TimerFires

-----------------------------------------------------------------------------
(* The speed controller called on its own: compute_control with target and *)
(* current speeds, tick sizes and faults, set_control_params and reset().   *)

\* calls explored per behaviour
MaxCalls == 3

\* target and current speeds handed to compute_control (0.01 km/h)
TargetSpeeds == {0, 8000}
CurrentSpeeds == {4000}

\* (pid_fault, fault): at most one statement raises in a call
FaultChoices ==
  { <<"none", "none">>, <<"error", "none">>, <<"log", "none">>,
    <<"none", "convert">>, <<"none", "log">> }

\* arguments (kp, ki, kd, max_jerk) of set_control_params; <<>> is None.
\* set_control_params stores what it is given: the last choice is a negative
\* max_jerk.
ParamChoices ==
  { << <<20>>, <<>>, <<>>, <<>> >>,
    << <<>>, <<0>>, <<>>, <<>> >>,
    << <<>>, <<>>, <<0>>, <<>> >>,
    << <<20>>, <<20>>, <<20>>, <<>> >>,
    << <<>>, <<>>, <<>>, <<200>> >>,
    << <<>>, <<>>, <<>>, <<-750>> >> }

ControlInit ==
  /\ sim = ResetState
  /\ is_running = FALSE
  /\ is_manual = FALSE
  /\ simulation_speed = 1
  /\ op = NoOp("init")
  /\ pre = sim
  /\ stop = NoStop
  /\ run = 0
  /\ controller = ControllerInit
  /\ control = NoControl

ComputeControl(target_speed, current_speed, dt, faults) ==
  LET result == compute_control(controller, target_speed, current_speed, dt,
                                faults[1], faults[2])
  IN  /\ run < MaxCalls
      /\ controller' = result.c
      /\ control' =
           [ name |-> "compute", dt |-> dt,
             error |-> SpeedMs(target_speed) - SpeedMs(current_speed),
             raw_acc |-> result.raw_acc, output |-> result.output,
             previous |-> IF control.name = "compute"
                            THEN <<control.output>> ELSE <<>>,
             fault |-> faults[2], pid_fault |-> faults[1],
             before |-> controller,
             last |-> Called("compute_control", <<>>, controller) ]
      /\ run' = run + 1
      /\ UNCHANGED <<sim, is_running, is_manual, simulation_speed, op, pre,
                     stop>>

SetControlParams(params) ==
  /\ run < MaxCalls
  /\ controller' = set_control_params(controller, params[1], params[2],
                                      params[3], params[4])
  /\ control' =
       [control EXCEPT !.last = Called("set_control_params", params,
                                       controller)]
  /\ run' = run + 1
  /\ UNCHANGED <<sim, is_running, is_manual, simulation_speed, op, pre, stop>>

\* get_control_params(): the dict is handed to the caller
GetControlParams ==
  /\ run < MaxCalls
  /\ control' =
       [control EXCEPT !.last = Called("get_control_params",
                                       get_control_params(controller),
                                       controller)]
  /\ run' = run + 1
  /\ UNCHANGED <<sim, is_running, is_manual, simulation_speed, op, pre, stop,
                 controller>>

ControllerReset ==
  /\ run < MaxCalls
  /\ controller' = controller_reset(controller)
  /\ control' = [NoControl EXCEPT !.last = Called("reset", <<>>, controller)]
  /\ run' = run + 1
  /\ UNCHANGED <<sim, is_running, is_manual, simulation_speed, op, pre,
                 stop>>

ControlNext ==
  \/ \E target_speed \in TargetSpeeds, current_speed \in CurrentSpeeds,
        dt \in SpeedChoices, faults \in FaultChoices :
        ComputeControl(target_speed, current_speed, dt, faults)
  \/ \E params \in ParamChoices : SetControlParams(params)
  \/ GetControlParams
  \/ ControllerReset

ControlSpec == ControlInit /\ [][ControlNext]_vars

-----------------------------------------------------------------------------
(* Replay of the drives: the timer callback in automatic mode at 10x speed, *)
(* with the control values of the drive named in op.                       *)
DriveNames ==
  [ intermediate |-> DriveToIntermediate, terminal |-> DriveToTerminal,
    after_stop |-> DriveToTerminalAfterStop, ceiling |-> DriveToCeiling,
    emergency |-> DriveToEmergency ]

DriveInit ==
  /\ sim = ResetState
  /\ is_running = TRUE
  /\ is_manual = FALSE
  /\ simulation_speed = 10
  /\ op \in {NoOp(n) : n \in DOMAIN DriveNames}
  /\ pre = sim
  /\ stop = NoStop
  /\ run = 0
  /\ controller = ControllerInit
  /\ control = NoControl

DriveStep ==
  LET drive == DriveNames[op.name]
      result == update(sim, SegmentAt(drive, run)[2],
                       <<SegmentAt(drive, run)[3]>>)
  IN  /\ run < DriveLength(drive)
      /\ sim' = result.sim
      /\ stop' = StopAfter(stop, result)
      /\ run' = run + 1
      /\ pre' = sim
      /\ UNCHANGED <<is_running, is_manual, simulation_speed, op,
                     controller, control>>

DriveSpec == DriveInit /\ [][DriveStep]_vars

\* every drive ends in the start state given for it
DriveArrives ==
  run = DriveLength(DriveNames[op.name]) =>
    /\ sim = Arrival(DriveNames[op.name])
    /\ stop = (IF op.name = "after_stop"
                THEN [band |-> "intermediate", entered |-> 1030, left |-> TRUE]
                ELSE NoStop)

\* no drive sets off the ATP or reaches the terminal stop on its way
DriveUndisturbed ==
  /\ op.name # "emergency" => sim.status \in {Coasting, StationStop}
  /\ sim.emergency_brake_start = 0

-----------------------------------------------------------------------------
(* Curve construction and lookup on their own: load_data over the four     *)
(* tables the spreadsheets hold, then the lookups of the curves it built.  *)
(* op holds the tables read, the outcome of load_data and the last lookup. *)

StrictlyIncreasing(pts) ==
  \A i \in 1..(Len(pts) - 1) : pts[i][1] < pts[i + 1][1]

\* interp1d sorts the points by x (a stable argsort) before it keeps them
RECURSIVE InsertPoint(_, _)
InsertPoint(sorted, pt) ==
  IF sorted = <<>> THEN <<pt>>
  ELSE IF pt[1] < sorted[1][1] THEN <<pt>> \o sorted
  ELSE <<sorted[1]>> \o InsertPoint(Tail(sorted), pt)

RECURSIVE SortPoints(_)
SortPoints(pts) ==
  IF pts = <<>> THEN <<>>
  ELSE InsertPoint(SortPoints(SubSeq(pts, 1, Len(pts) - 1)), pts[Len(pts)])

\* interp1d(x, y, bounds_error=False, fill_value=(y[0], y[-1])): fewer than
\* two points raise ValueError; nothing else about x is checked.
interp1d(pts) ==
  IF Len(pts) < 2
    THEN [error |-> "ValueError", points |-> <<>>, fill_value |-> <<>>]
    ELSE [error |-> "none", points |-> SortPoints(pts),
          fill_value |-> <<pts[1][2], pts[Len(pts)][2]>>]

CurveNames == {"target", "ceiling", "brake", "traction"}

\* the points load_data hands to interp1d for the curve called name
TablePoints(tables, name) ==
  IF name = "ceiling" THEN CeilingPoints(tables.ceiling) ELSE tables[name]

\* load_data(): the four curves, or the exception it raises again
load_data(tables) ==
  LET curves == [name \in CurveNames |-> interp1d(TablePoints(tables, name))]
  IN  [ error |-> IF \E name \in CurveNames : curves[name].error # "none"
                    THEN "ValueError" ELSE "none",
        curves |-> curves ]

\* the tables of the spreadsheets as shipped
ShippedTables ==
  [ target |-> TargetPoints, ceiling |-> CeilingRows,
    brake |-> BrakePoints, traction |-> TractionPoints ]

\* spreadsheets load_data may find: sound ones, and ones with a table of
\* one point or none, x out of order, or an x repeated
TableChoices ==
  { ShippedTables,
    [ShippedTables EXCEPT !.traction = << <<0, 0>>, <<10, 10>> >>],
    [ShippedTables EXCEPT !.brake = << <<0, -11000>>, <<12000, -9000>> >>],
    [ShippedTables EXCEPT !.traction = << <<0, 11000>> >>],
    [ShippedTables EXCEPT !.target = <<>>],
    [ShippedTables EXCEPT
       !.brake = << <<8000, -11000>>, <<0, -11000>>, <<12000, -9000>> >>],
    [ShippedTables EXCEPT
       !.target = << <<216042803, 3000>>, <<228783200, 0>>,
                     <<228783200, 0>>, <<242753100, 0>> >>],
    [ShippedTables EXCEPT
       !.ceiling = << <<210000000, 226000000, 8000>>,
                      <<226000000, 243000000, 6000>> >>] }

\* where a curve is evaluated: its control points, the middle of each
\* segment, and a point beyond either end
LookupInputs(pts) ==
  {pts[i][1] : i \in 1..Len(pts)}
    \cup {(pts[i][1] + pts[i + 1][1]) \div 2 : i \in 1..(Len(pts) - 1)}
    \cup {pts[1][1] - 5, pts[Len(pts)][1] + 5}

CurveInit ==
  /\ sim = ResetState
  /\ is_running = FALSE
  /\ is_manual = FALSE
  /\ simulation_speed = 1
  /\ op = [name |-> "init", tables |-> <<>>, error |-> "none",
           curves |-> <<>>, curve |-> "none", x |-> 0, value |-> 0]
  /\ pre = sim
  /\ stop = NoStop
  /\ run = 0
  /\ controller = ControllerInit
  /\ control = NoControl

\* the constructor's call of load_data()
LoadData(tables) ==
  /\ op.name = "init"
  /\ op' = [op EXCEPT !.name = "load_data", !.tables = tables,
                      !.error = load_data(tables).error,
                      !.curves = load_data(tables).curves]
  /\ UNCHANGED <<sim, is_running, is_manual, simulation_speed, pre, stop, run,
                 controller, control>>

\* a lookup of one of the curves, as get_target_speed, get_ceiling_speed
\* and the two command setters make it.  Lookups are explored on the
\* tables whose x rise strictly.
CurveLookup(name, x) ==
  /\ op.name \in {"load_data", "lookup"}
  /\ op.error = "none"
  /\ StrictlyIncreasing(TablePoints(op.tables, name))
  /\ x \in LookupInputs(op.curves[name].points)
  /\ op' = [op EXCEPT !.name = "lookup", !.curve = name, !.x = x,
                      !.value = Lookup(op.curves[name].points, x)]
  /\ UNCHANGED <<sim, is_running, is_manual, simulation_speed, pre, stop, run,
                 controller, control>>

\* every x a lookup is explored at
AllLookupInputs ==
  UNION {LookupInputs(TablePoints(tables, name)) :
           tables \in {t \in TableChoices : load_data(t).error = "none"},
           name \in CurveNames}

CurveNext ==
  \/ \E tables \in TableChoices : LoadData(tables)
  \/ \E name \in CurveNames, x \in AllLookupInputs : CurveLookup(name, x)

CurveSpec == CurveInit /\ [][CurveNext]_vars

-----------------------------------------------------------------------------
(* The evaluator (src/TrainSimulation_Code/evaluate.py) on its own: a log   *)
(* grows row by row as log_state writes it, calculate_comfort_level grades *)
(* an acceleration, evaluate_offline_data evaluates the log against the    *)
(* timetable.  op holds the log and the outcome of the last call.          *)
(* Shares are in 0.01 %, the mean deviation in 0.0001.                     *)

\* bounds of the comfort classes: 0.28, 1.23 and 2.12 m/s^2
VeryComfortable == 2800
Comfortable == 12300
Uncomfortable == 21200

\* a stop event within 60 s of the timetable is on time
OnTime == 600

\* the position 22880.2255 the target stop positions leave out
ExcludedPosition == 228802255

\* Mutant: the class bounds taken as exclusive.
calculate_comfort_level_strict(acceleration) ==
  LET abs_acc == Abs(acceleration)
  IN  IF abs_acc < VeryComfortable THEN 1
      ELSE IF abs_acc < Comfortable THEN 2
      ELSE IF abs_acc < Uncomfortable THEN 3
      ELSE 4

\* calculate_comfort_level(acceleration): the level of the pair returned
calculate_comfort_level(acceleration) ==
  LET abs_acc == Abs(acceleration)
  IN  IF abs_acc <= VeryComfortable THEN 1
      ELSE IF abs_acc <= Comfortable THEN 2
      ELSE IF abs_acc <= Uncomfortable THEN 3
      ELSE 4

\* Rows of the timetable spreadsheet: time in 0.1 s, position in 0.0001 m,
\* speed in 0.01 km/h.  Arrival at and departure from the intermediate
\* station, arrival at the terminal.
TimeTable ==
  << [time |-> 0, position |-> 216042803, speed |-> 3000],
     [time |-> 982, position |-> 228783200, speed |-> 0],
     [time |-> 1217, position |-> 228802255, speed |-> 0],
     [time |-> 1500, position |-> 235000000, speed |-> 6000],
     [time |-> 2286, position |-> 242753100, speed |-> 0],
     [time |-> 2400, position |-> 242753100, speed |-> 0] >>

\* A timetable of a run without the intermediate stop.
DirectTimeTable ==
  << [time |-> 0, position |-> 216042803, speed |-> 3000],
     [time |-> 1500, position |-> 235000000, speed |-> 6000],
     [time |-> 2286, position |-> 242753100, speed |-> 0],
     [time |-> 2400, position |-> 242753100, speed |-> 0] >>

TimeTables == {TimeTable, DirectTimeTable}

RECURSIVE SumSeq(_)
SumSeq(seq) == IF seq = <<>> THEN 0 ELSE seq[1] + SumSeq(Tail(seq))

\* the values of seq in the order of their first occurrence
RECURSIVE Distinct(_)
Distinct(seq) ==
  IF seq = <<>> THEN <<>>
  ELSE LET front == Distinct(SubSeq(seq, 1, Len(seq) - 1))
           last == seq[Len(seq)]
       IN  IF \E k \in 1..Len(front) : front[k] = last
             THEN front ELSE Append(front, last)

\* Mutant: the rows at a station kept among the rows in motion.
df_on_rail_all(df) == df

\* df[df["Operating Condition"] != "停站"]
df_on_rail(df) == SelectSeq(df, LAMBDA row : row.status # StationStop)

\* the mean of |speed - target| / target over the rows in motion; a target
\* of 0 makes the quotient of the two floats infinite or not a number
\* without raising
mean_deviation(rows) ==
  IF \E i \in 1..Len(rows) : rows[i].target_speed = 0
    THEN "non-finite"
    ELSE SumSeq([i \in 1..Len(rows) |->
                   (Abs(rows[i].speed - rows[i].target_speed) * 10000)
                     \div rows[i].target_speed])
           \div Len(rows)

\* the three comfort loops over the rows in motion
comfort_time(rows) ==
  Cardinality({i \in 1..Len(rows) :
                 Abs(rows[i].acceleration) <= VeryComfortable})

mid_comfort_time(rows) ==
  Cardinality({i \in 1..Len(rows) : Abs(rows[i].acceleration) <= Comfortable})

un_comfort_time(rows) ==
  Cardinality({i \in 1..Len(rows) : Abs(rows[i].acceleration) > Comfortable})

\* the times of the rows, the first and the last of the log apart, that are
\* at a station and differ in condition from the row before or after
actual_stop_time(df) ==
  LET recorded(i) ==
        /\ 1 < i
        /\ i < Len(df)
        /\ df[i].status = StationStop
        /\ (df[i].status # df[i - 1].status \/ df[i].status # df[i + 1].status)
      rows == SelectSeq([i \in 1..Len(df) |-> i], recorded)
  IN  [k \in 1..Len(rows) |-> df[rows[k]].time]

\* the same over the timetable, a row being at a station when its speed is 0
target_stop_time(time_table) ==
  LET recorded(i) ==
        /\ 1 < i
        /\ i < Len(time_table)
        /\ time_table[i].speed = 0
        /\ (time_table[i].speed # time_table[i - 1].speed
              \/ time_table[i].speed # time_table[i + 1].speed)
      rows == SelectSeq([i \in 1..Len(time_table) |-> i], recorded)
  IN  [k \in 1..Len(rows) |-> time_table[rows[k]].time]

\* the events within 60 s of the timetable entry of the same index
on_time_count(actual, target) ==
  Cardinality({i \in 1..Len(actual) : Abs(actual[i] - target[i]) <= OnTime})

target_stop_position(time_table) ==
  LET rows == SelectSeq(time_table,
                        LAMBDA row : row.speed = 0
                                       /\ row.position # ExcludedPosition)
  IN  Distinct([i \in 1..Len(rows) |-> rows[i].position])

stop_position(df) ==
  LET rows == SelectSeq(df, LAMBDA row : row.status = StationStop)
  IN  Distinct([i \in 1..Len(rows) |-> rows[i].position])

\* the results dict as evaluate_offline_data creates it
NoResults ==
  [ mean_deviation |-> 0, very_comfortable_share |-> 0,
    comfortable_share |-> 0, uncomfortable_time |-> 0,
    actual_stop_time |-> <<>>, target_stop_time |-> <<>>, punctuality |-> 0,
    target_stop_position |-> <<>>, stop_position |-> <<>>,
    all_stops_done |-> "none", stopping_error |-> <<>>,
    mean_stopping_error |-> 0 ]

\* evaluate_offline_data(file_path) over the rows df of the log and the
\* rows time_table of the timetable: the exception its try block catches
\* ("none" when it runs to the end), the results dict as far as it was
\* filled, and whether display_evaluation_results showed the report.
evaluate_offline_data(df, time_table) ==
  LET rows == df_on_rail(df)
      N == Len(rows)
      smooth ==
        [NoResults EXCEPT
           !.mean_deviation = mean_deviation(rows),
           !.very_comfortable_share = (10000 * comfort_time(rows)) \div N,
           !.comfortable_share = (10000 * mid_comfort_time(rows)) \div N,
           !.uncomfortable_time = un_comfort_time(rows)]
      actual == actual_stop_time(df)
      target == target_stop_time(time_table)
      timed == [smooth EXCEPT !.actual_stop_time = actual,
                              !.target_stop_time = target]
      punctual ==
        [timed EXCEPT
           !.punctuality =
              (10000 * on_time_count(actual, target)) \div Len(actual)]
      scheduled == target_stop_position(time_table)
      stops == stop_position(df)
      placed == [punctual EXCEPT !.target_stop_position = scheduled,
                                 !.stop_position = stops]
      errors == [i \in 1..Len(scheduled) |-> Abs(scheduled[i] - stops[i])]
      done ==
        IF Len(scheduled) # Len(stops)
          THEN [placed EXCEPT !.all_stops_done = "incomplete"]
          ELSE [placed EXCEPT
                  !.all_stops_done = "complete",
                  !.stopping_error = errors,
                  !.mean_stopping_error = SumSeq(errors) \div Len(errors)]
  IN  IF N = 0
        THEN [error |-> "ZeroDivisionError", results |-> NoResults,
              report |-> FALSE]
      ELSE IF Len(actual) > Len(target)
        THEN [error |-> "IndexError", results |-> timed, report |-> FALSE]
      ELSE IF Len(actual) = 0
        THEN [error |-> "ZeroDivisionError", results |-> timed,
              report |-> FALSE]
      ELSE [error |-> "none", results |-> done, report |-> TRUE]

\* rows explored per log
MaxRows == 4

\* time between the rows of the explored logs (0.1 s)
RowTime == 791

\* a row of the log without its time: two rows in motion at either side of
\* the first comfort bound, one beyond the second, and a row at rest 1.2 m
\* past the intermediate stop point and one 0.5 m short of the terminal one
RowChoices ==
  { [position |-> 220000000, speed |-> 5000, acceleration |-> 2800,
     status |-> Coasting, target_speed |-> 6000],
    [position |-> 228000000, speed |-> 4000, acceleration |-> -2801,
     status |-> Braking, target_speed |-> 0],
    [position |-> 226050000, speed |-> 7100, acceleration |-> -12301,
     status |-> EmergencyBraking, target_speed |-> 7000],
    [position |-> 228795200, speed |-> 0, acceleration |-> 0,
     status |-> StationStop, target_speed |-> 0],
    [position |-> 242748100, speed |-> 0, acceleration |-> 0,
     status |-> StationStop, target_speed |-> 0] }

\* accelerations graded, at and next to each class bound
AccelerationChoices ==
  { 0, 2800, -2800, 2801, -2801, 12300, -12300, 12301, -12301,
    21200, -21200, 21201, -21201 }

NoEvaluation == [error |-> "none", results |-> NoResults, report |-> FALSE]

EvalInit ==
  /\ sim = ResetState
  /\ is_running = FALSE
  /\ is_manual = FALSE
  /\ simulation_speed = 1
  /\ \E time_table \in TimeTables :
       op = [name |-> "init", time_table |-> time_table, log |-> <<>>,
             acceleration |-> 0, level |-> 0, result |-> NoEvaluation]
  /\ pre = sim
  /\ stop = NoStop
  /\ run = 0
  /\ controller = ControllerInit
  /\ control = NoControl

\* log_state(): one more row in the log file
LogState(row) ==
  /\ Len(op.log) < MaxRows
  /\ op' = [name |-> "log_state", time_table |-> op.time_table,
            log |-> Append(op.log,
                           [time |-> RowTime * (Len(op.log) + 1),
                            position |-> row.position, speed |-> row.speed,
                            acceleration |-> row.acceleration,
                            status |-> row.status,
                            target_speed |-> row.target_speed]),
            acceleration |-> 0, level |-> 0, result |-> NoEvaluation]
  /\ UNCHANGED <<sim, is_running, is_manual, simulation_speed, pre, stop, run,
                 controller, control>>

ComfortLevel(acceleration) ==
  /\ op' = [name |-> "comfort", time_table |-> op.time_table,
            log |-> op.log,
            acceleration |-> acceleration,
            level |-> calculate_comfort_level(acceleration),
            result |-> NoEvaluation]
  /\ UNCHANGED <<sim, is_running, is_manual, simulation_speed, pre, stop, run,
                 controller, control>>

EvaluateOfflineData ==
  /\ op' = [name |-> "evaluate", time_table |-> op.time_table,
            log |-> op.log, acceleration |-> 0, level |-> 0,
            result |-> evaluate_offline_data(op.log, op.time_table)]
  /\ UNCHANGED <<sim, is_running, is_manual, simulation_speed, pre, stop, run,
                 controller, control>>

EvalNext ==
  \/ \E row \in RowChoices : LogState(row)
  \/ \E acceleration \in AccelerationChoices : ComfortLevel(acceleration)
  \/ EvaluateOfflineData

EvalSpec == EvalInit /\ [][EvalNext]_vars

-----------------------------------------------------------------------------
(* Properties.  Ticked says that the last operation was a call of update;  *)
(* pre is then the engine the call started from, op.dt and op.control_acc  *)
(* its arguments, and sim.time the simulation time of that tick.           *)
Ticked == op.name = "update"

\* C1: a tick that starts with speed*3.6 >= ceiling(position) in a condition
\* other than EmergencyBraking / PenaltyDelay ends in EmergencyBraking,
\* whatever the commands in force and the control_acc passed (the ceiling
\* tables are speed limits, above 0).
C1_SafetyOverride ==
  (Ticked /\ OverCeiling(pre)
     /\ pre.status \notin {EmergencyBraking, PenaltyDelay})
  => sim.status = EmergencyBraking

\* C1 witness: the ATP overrides Traction with a traction command set.
C1_Witness ==
  /\ Ticked /\ OverCeiling(pre)
  /\ pre.status = Traction /\ pre.traction_acc > 0
  /\ sim.status = EmergencyBraking

\* C2: a tick spent in EmergencyBraking with speed > 0 applies exactly
\* -1.1 m/s^2 and leaves the traction command 0, whatever the commands and
\* the control_acc.
C2_EmergencyRate ==
  (Ticked /\ pre.speed > 0
     /\ (pre.status = EmergencyBraking \/ sim.status = EmergencyBraking))
  => /\ sim.acceleration = EmergencyDec
     /\ sim.traction_acc = 0
     /\ sim.speed = Max(0, pre.speed + EmergencyDec * op.dt)

\* C2 witness: an emergency-braking tick with a brake command in force.
C2_Witness ==
  /\ Ticked /\ pre.status = EmergencyBraking /\ pre.speed > 0
  /\ pre.brake_acc > 0
  /\ sim.acceleration = EmergencyDec /\ sim.speed < pre.speed

\* C3: within a run (reset() apart), EmergencyBraking is left only by a tick
\* that starts with speed 0, which enters PenaltyDelay and records that
\* tick's simulation time; a tick that starts in EmergencyBraking with
\* speed > 0 stays there; PenaltyDelay is entered from EmergencyBraking
\* only.
C3_EmergencyToPenalty ==
  /\ (op.name # "reset" /\ pre.status = EmergencyBraking
        /\ sim.status # EmergencyBraking)
     => (Ticked /\ pre.speed = 0)
  /\ (Ticked /\ pre.status = EmergencyBraking /\ pre.speed = 0)
     => /\ sim.status = PenaltyDelay
        /\ sim.emergency_brake_start = pre.time + op.dt
  /\ (Ticked /\ pre.status = EmergencyBraking /\ pre.speed > 0)
     => sim.status = EmergencyBraking
  /\ (sim.status = PenaltyDelay /\ pre.status # PenaltyDelay)
     => (Ticked /\ pre.status = EmergencyBraking)

\* C3 witness: the tick that finds the train at rest in EmergencyBraking.
C3_Witness ==
  /\ Ticked /\ pre.status = EmergencyBraking /\ pre.speed = 0
  /\ sim.status = PenaltyDelay
  /\ sim.emergency_brake_start = sim.time

\* C4: with T the recorded entry time, a tick that starts in PenaltyDelay
\* ends in PenaltyDelay (T kept) if its time t has t - T < 5.0 s and in
\* Coasting if t - T >= 5.0 s, for every tick size; the operations between
\* ticks (reset() apart) change neither the condition nor T.
C4_PenaltyDuration ==
  (pre.status = PenaltyDelay /\ op.name # "reset")
  => IF ~Ticked
       THEN /\ sim.status = PenaltyDelay
            /\ sim.emergency_brake_start = pre.emergency_brake_start
     ELSE IF sim.time - pre.emergency_brake_start < PenaltyTime
       THEN /\ sim.status = PenaltyDelay
            /\ sim.emergency_brake_start = pre.emergency_brake_start
     ELSE sim.status = Coasting

\* C4 witness: ticks of unequal size step over the 5.0 s mark.
C4_Witness ==
  /\ Ticked /\ pre.status = PenaltyDelay /\ sim.status = Coasting
  /\ sim.time - pre.emergency_brake_start > PenaltyTime
  /\ pre.time - pre.emergency_brake_start < PenaltyTime

\* C5: in PenaltyDelay speed and acceleration are 0 and no tick moves the
\* train, whatever the keys pressed and the control_acc passed; PenaltyDelay
\* is followed by Coasting only, and Traction is entered only by the
\* traction key pressed in Coasting.
C5_PenaltyHolds ==
  /\ sim.status = PenaltyDelay => (sim.speed = 0 /\ sim.acceleration = 0)
  /\ (Ticked /\ pre.status = PenaltyDelay)
     => /\ sim.position = pre.position
        /\ sim.speed = 0
        /\ sim.acceleration = 0
  /\ (pre.status = PenaltyDelay /\ sim.status # PenaltyDelay)
     => sim.status = Coasting
  /\ (sim.status = Traction /\ pre.status # Traction)
     => (op.name = "Q" /\ pre.status = Coasting)

\* C5 witness: a tick of PenaltyDelay that is handed a positive control_acc.
C5_Witness ==
  /\ Ticked /\ pre.status = PenaltyDelay
  /\ op.control_acc # <<>> /\ op.control_acc[1] > 0
  /\ sim.status = PenaltyDelay /\ sim.position = pre.position

\* C6: every StationStop, entered in either band, lasts 23.5 s from the tick
\* that entered it: a later tick with elapsed < 23.5 s stays in StationStop
\* at speed 0 and acceleration 0, and the first with elapsed >= 23.5 s
\* leaves it.
C6_DwellFromEntry ==
  (Ticked /\ pre.status = StationStop)
  => IF sim.time - stop.entered < DwellTime
       THEN sim.status = StationStop /\ sim.speed = 0 /\ sim.acceleration = 0
       ELSE sim.status # StationStop

\* C7: the StationStop entered in the terminal band ends in Terminated; only
\* the one entered in the intermediate band ends in Coasting.
C7_TerminalEndsTerminated ==
  (Ticked /\ pre.status = StationStop /\ sim.status # StationStop)
  => /\ stop.band = "terminal" => sim.status = "Terminated"
     /\ sim.status = Coasting => stop.band = "intermediate"

\* C8: once the stop at the terminal station is over, a further call of
\* update changes neither position, speed, simulation time nor condition.
C8_IdempotentTail ==
  (Ticked /\ stop.band = "terminal" /\ stop.left
     /\ pre.status # StationStop)
  => /\ sim.position = pre.position
     /\ sim.speed = pre.speed
     /\ sim.time = pre.time
     /\ sim.status = pre.status

\* C9: a tick that starts in Traction, Coasting or Braking, without ATP
\* trigger, inside either station band at or below the stop threshold ends
\* in StationStop with speed, acceleration and both commands 0 and the dwell
\* entry time set to that tick's simulation time.
C9_StationZoneDetection ==
  (Ticked /\ IsNormal(pre.status) /\ ~OverCeiling(pre)
     /\ check_station_stop(pre) /\ pre.speed <= StopSpeed)
  => /\ sim.status = StationStop
     /\ sim.speed = 0
     /\ sim.acceleration = 0
     /\ sim.traction_acc = 0
     /\ sim.brake_acc = 0
     /\ sim.stop_start = pre.time + op.dt

\* C10: a tick that starts inside a station band, intermediate or terminal,
\* above the stop threshold does not stop the train: the condition does not
\* become StationStop and the speed is the integrated one, not forced to 0.
C10_PassThrough ==
  (Ticked /\ check_station_stop(pre) /\ pre.speed > StopSpeed)
  => /\ sim.status # StationStop
     /\ sim.speed = Max(0, pre.speed + sim.acceleration * op.dt)

\* C11: speed >= 0 in every state; every tick integrates
\* speed' = max(0, speed + acceleration*dt) and
\* position' = position + (speed + speed')*dt/2, from the speed and position
\* the tick's branch starts the integration with; and across a tick with
\* speed > 0 at its start or end the position does not decrease.
C11_SpeedAndPosition ==
  /\ sim.speed >= 0
  /\ Ticked =>
       LET v0 == IF op.message \in {"terminal", "stop_enter"} THEN 0
                 ELSE pre.speed
           p0 == IF op.message = "stop_end" THEN DeparturePosition
                 ELSE pre.position
       IN  /\ sim.speed = Max(0, v0 + sim.acceleration * op.dt)
           /\ sim.position = p0 + ((v0 + sim.speed) * op.dt) \div 200
  /\ (Ticked /\ (pre.speed > 0 \/ sim.speed > 0))
       => sim.position >= pre.position

\* C11 witness: a tick whose deceleration would take the speed below 0.
C11_Witness ==
  /\ Ticked /\ pre.speed > 0
  /\ pre.speed + sim.acceleration * op.dt < 0
  /\ sim.speed = 0 /\ sim.position > pre.position

\* C12: a tick without control_acc that starts and ends in the same one of
\* Traction, Coasting, Braking integrates with: Traction, traction command +
\* resistance; Braking, -brake command + resistance if speed > 0, else 0;
\* Coasting, resistance if speed > 0, else 0; resistance taken at the km/h
\* speed the tick starts with.
C12_NormalAcceleration ==
  (Ticked /\ op.control_acc = <<>> /\ IsNormal(pre.status)
     /\ sim.status = pre.status)
  => LET resistance == get_resistance(SpeedKmh(pre.speed))
     IN  /\ sim.resistance_acc = resistance
         /\ sim.acceleration =
              (CASE pre.status = Traction -> pre.traction_acc + resistance
                 [] pre.status = Braking ->
                      IF pre.speed > 0 THEN -pre.brake_acc + resistance ELSE 0
                 [] pre.status = Coasting ->
                      IF pre.speed > 0 THEN resistance ELSE 0)
         /\ sim.speed = Max(0, pre.speed + sim.acceleration * op.dt)

\* C12 witness: a manual tick in Traction with a traction command.
C12_Witness ==
  /\ Ticked /\ op.control_acc = <<>>
  /\ pre.status = Traction /\ sim.status = Traction
  /\ pre.traction_acc > 0 /\ pre.speed > 0
  /\ sim.acceleration < pre.traction_acc
  /\ sim.acceleration = pre.traction_acc + sim.resistance_acc

\* C13: the result of a tick that starts in EmergencyBraking, PenaltyDelay or
\* StationStop, or on which the ATP triggers or StationStop is entered, is
\* the same for every control_acc (a value or none), so runs that differ
\* only in the control_acc of such ticks reach the same engine; on the other
\* ticks a supplied control_acc is the acceleration integrated; and in manual
\* mode the timer callback passes no control_acc.
C13_ControlPrecedence ==
  /\ (Ticked /\ is_manual) => op.control_acc = <<>>
  /\ Ticked =>
       IF \/ pre.status \in {EmergencyBraking, PenaltyDelay, StationStop}
          \/ sim.status \in {EmergencyBraking, PenaltyDelay, StationStop}
         THEN \A c \in {<<>>} \cup {<<a>> : a \in ControlChoices} :
                update(pre, op.dt, c).sim = sim
         ELSE op.control_acc # <<>> =>
                /\ sim.acceleration = op.control_acc[1]
                /\ sim.speed = Max(0, pre.speed + op.control_acc[1] * op.dt)

\* C13 witness: the ATP triggers on a tick that is handed full traction.
C13_Witness ==
  /\ Ticked /\ IsNormal(pre.status) /\ sim.status = EmergencyBraking
  /\ op.control_acc = <<11000>>
  /\ sim.acceleration = EmergencyDec /\ sim.speed < pre.speed

\* C14: set_traction_acc called in a condition other than Traction, and
\* set_brake_acc called in a condition other than Braking, leave every field
\* of the engine as it was, for every value.
C14_IgnoredCommands ==
  (\/ op.name = "set_traction_acc" /\ pre.status # Traction
   \/ op.name = "set_brake_acc" /\ pre.status # Braking)
  => sim = pre

\* C14 witness: a traction command sent while braking with a brake command.
C14_Witness ==
  /\ op.name = "set_traction_acc" /\ op.value > 0
  /\ pre.status = Braking /\ pre.brake_acc > 0
  /\ sim = pre

\* C15: set_traction_acc(value) in Traction leaves the traction command at
\* value clamped into [0, maxTraction(speed)], and set_brake_acc(value) in
\* Braking leaves the brake command at value clamped into
\* [0, maxBrake(speed)]; no other field changes.
C15_CommandClamping ==
  /\ (op.name = "set_traction_acc" /\ pre.status = Traction)
     => LET hi == Lookup(TractionPoints, SpeedKmh(pre.speed))
        IN  /\ 0 <= sim.traction_acc /\ sim.traction_acc <= hi
            /\ (0 <= op.value /\ op.value <= hi) => sim.traction_acc = op.value
            /\ op.value < 0 => sim.traction_acc = 0
            /\ op.value > hi => sim.traction_acc = hi
            /\ sim = [pre EXCEPT !.traction_acc = sim.traction_acc]
  /\ (op.name = "set_brake_acc" /\ pre.status = Braking)
     => LET hi == -Lookup(BrakePoints, SpeedKmh(pre.speed))
        IN  /\ 0 <= sim.brake_acc /\ sim.brake_acc <= hi
            /\ (0 <= op.value /\ op.value <= hi) => sim.brake_acc = op.value
            /\ op.value < 0 => sim.brake_acc = 0
            /\ op.value > hi => sim.brake_acc = hi
            /\ sim = [pre EXCEPT !.brake_acc = sim.brake_acc]

\* C15 witness: a negative brake command replaces a positive one by 0.
C15_Witness ==
  /\ op.name = "set_brake_acc" /\ op.value < 0
  /\ pre.status = Braking /\ pre.brake_acc > 0
  /\ sim.brake_acc = 0

\* C16: in every state both commands are >= 0 and at most the value of
\* their curve at the current speed, also after ticks that changed the
\* speed.
C16_CommandsWithinCurves ==
  /\ 0 <= sim.traction_acc
  /\ sim.traction_acc <= Lookup(TractionPoints, SpeedKmh(sim.speed))
  /\ 0 <= sim.brake_acc
  /\ sim.brake_acc <= -Lookup(BrakePoints, SpeedKmh(sim.speed))

\* C17: when update returns an error result, time, position, speed,
\* acceleration, commands and condition are what they were before the call.
C17_AtomicOnFault ==
  op.name = "update_fault" => sim = pre

\* C18: after reset() every piece of engine run state, the event lists and
\* their counters included, equals its value in a freshly constructed
\* engine.
C18_ResetWholeState ==
  op.name = "reset" => sim = ResetState

\* C19: within a run of the controller, two consecutive values a0, a1
\* returned by compute_control, the second called with tick dt, satisfy
\* |a1 - a0| <= max_jerk * dt, whatever the speeds and the gains, also when
\* a call takes the fault path.
C19_JerkBound ==
  (control.name = "compute" /\ control.previous # <<>>)
  => Abs(control.output - control.previous[1])
       <= control.before.max_jerk * control.dt

\* C20: after every call of compute the integral lies within the output
\* limits: it is clamp(integral + 0.5*ki*(error + last_error)*dt) when
\* ki > 0, and the output of compute is P + I + D clamped to the same limits.
C20_AntiWindup ==
  /\ controller.output_limits[1] <= controller.integral
  /\ controller.integral <= controller.output_limits[2]
  /\ (control.name = "compute" /\ control.pid_fault = "none"
        /\ control.fault # "convert")
     => LET b == control.before
            lo == b.output_limits[1]
            hi == b.output_limits[2]
            sum == b.integral
                     + (b.ki * (control.error + b.last_error) * control.dt)
                         \div 2000
            P == (b.kp * control.error) \div 100
            D == IF b.kd > 0
                   THEN (b.kd * (control.error - b.last_error))
                          \div (10 * control.dt)
                   ELSE 0
        IN  /\ b.ki > 0 => controller.integral = Max(lo, Min(sum, hi))
            /\ control.raw_acc = Max(lo, Min(P + controller.integral + D, hi))

\* C20 witness: the integral stops at the upper limit while the sum of the
\* three terms is beyond it.
C20_Witness ==
  /\ control.name = "compute" /\ control.pid_fault = "none"
  /\ control.fault = "none" /\ control.before.ki > 0
  /\ control.before.integral
       + (control.before.ki * (control.error + control.before.last_error)
            * control.dt) \div 2000 > controller.output_limits[2]
  /\ controller.integral = controller.output_limits[2]
  /\ control.raw_acc = controller.output_limits[2]

\* C21: a call of compute_control in which a statement raises, inside the PID
\* computation or in compute_control itself, returns acceleration 0.
C21_FaultReturnsZero ==
  (control.name = "compute"
     /\ (control.pid_fault # "none" \/ control.fault # "none"))
  => control.output = 0

C23_CurveLookup ==
  op.name = "lookup" =>
    LET pts == TablePoints(op.tables, op.curve)
        n == Len(pts)
        x == op.x
        y == op.value
    IN  /\ \A i \in 1..n : x = pts[i][1] => y = pts[i][2]
        /\ x < pts[1][1] => y = pts[1][2]
        /\ x > pts[n][1] => y = pts[n][2]
        /\ \A i \in 1..(n - 1) :
             (pts[i][1] < x /\ x < pts[i + 1][1])
             => LET dx == pts[i + 1][1] - pts[i][1]
                    dy == pts[i + 1][2] - pts[i][2]
                    r == dy * (x - pts[i][1]) - (y - pts[i][2]) * dx
                IN  IF dy = 0 THEN y = pts[i][2] ELSE 0 <= r /\ r < dx
        /\ op.curves = load_data(op.tables).curves

\* lookup(15) = 10 on the table (0, 0), (10, 10)
C23_Witness ==
  /\ op.name = "lookup"
  /\ TablePoints(op.tables, op.curve) = << <<0, 0>>, <<10, 10>> >>
  /\ op.x = 15
  /\ op.value = 10

\* C24: load_data fails whenever one of the four tables, the ceiling table
\* as assembled from the start and end of its rows included, has fewer than
\* two points or x that do not rise strictly.
C24_InvalidCurveRejected ==
  op.name = "load_data" =>
    ((\E name \in CurveNames :
        LET pts == TablePoints(op.tables, name)
        IN  Len(pts) < 2 \/ ~StrictlyIncreasing(pts))
     => op.error # "none")

\* C25: the comfort class of an acceleration a is 1 for |a| <= 0.28, 2 for
\* |a| <= 1.23, 3 for |a| <= 2.12 and 4 above, each bound belonging to the
\* class below it, and a and -a are of the same class.
C25_ComfortClasses ==
  op.name = "comfort" =>
    LET a == IF op.acceleration >= 0 THEN op.acceleration
             ELSE -op.acceleration
    IN  /\ op.level \in 1..4
        /\ op.level = 1 <=> a <= 2800
        /\ op.level = 2 <=> (2800 < a /\ a <= 12300)
        /\ op.level = 3 <=> (12300 < a /\ a <= 21200)
        /\ op.level = 4 <=> 21200 < a
        /\ calculate_comfort_level(-op.acceleration) = op.level

\* -0.28 m/s^2 graded 1
C25_Witness ==
  /\ op.name = "comfort"
  /\ op.acceleration = -2800
  /\ op.level = 1

\* C26: over the N >= 1 rows of a log that are not at a station, the very
\* comfortable share is 100 * (rows with |a| <= 0.28) / N, the comfortable
\* share 100 * (rows with |a| <= 1.23) / N and the uncomfortable time the
\* number of rows with |a| > 1.23; very comfortable <= comfortable <= 100,
\* and the comfortable and the uncomfortable rows together are the N rows.
C26_ComfortShares ==
  LET moving == {i \in 1..Len(op.log) : op.log[i].status # StationStop}
      N == Cardinality(moving)
      within(limit) ==
        Cardinality({i \in moving :
                       op.log[i].acceleration <= limit
                         /\ -op.log[i].acceleration <= limit})
      r == op.result.results
  IN  (op.name = "evaluate" /\ N >= 1)
      => /\ r.very_comfortable_share = (10000 * within(2800)) \div N
         /\ r.comfortable_share = (10000 * within(12300)) \div N
         /\ r.uncomfortable_time = N - within(12300)
         /\ r.very_comfortable_share <= r.comfortable_share
         /\ r.comfortable_share <= 10000
         /\ r.comfortable_share = (10000 * (N - r.uncomfortable_time)) \div N

\* a reported log with rows at a station among rows in motion of all three
\* kinds
C26_Witness ==
  /\ op.name = "evaluate"
  /\ op.result.report
  /\ \E i \in 1..Len(op.log) : op.log[i].status = StationStop
  /\ 0 < op.result.results.very_comfortable_share
  /\ op.result.results.very_comfortable_share
       < op.result.results.comfortable_share
  /\ op.result.results.comfortable_share < 10000
  /\ op.result.results.uncomfortable_time = 1

\* C27: the evaluator records one stop event for each maximal run of
\* consecutive rows at a station, timed at the first row of the run, and
\* reports as punctuality 100 * (events within 60 s of the timetable entry
\* of the same index) / (events recorded).
C27_Punctuality ==
  op.name = "evaluate" =>
    LET df == op.log
        first(i) == /\ df[i].status = StationStop
                    /\ (i = 1 \/ df[i - 1].status # StationStop)
        runs == SelectSeq([i \in 1..Len(df) |-> i], first)
        events == [k \in 1..Len(runs) |-> df[runs[k]].time]
        scheduled == target_stop_time(op.time_table)
        on_time ==
          Cardinality({k \in 1..Len(events) :
                         /\ k <= Len(scheduled)
                         /\ events[k] - scheduled[k] <= 600
                         /\ scheduled[k] - events[k] <= 600})
        r == op.result.results
    IN  /\ r.actual_stop_time = events
        /\ events # <<>>
           => r.punctuality = (10000 * on_time) \div Len(events)

\* C28: the distinct positions of the rows at a station, in the order of
\* their first occurrence, are compared index by index with the distinct
\* positions of the timetable rows of speed 0: if the two counts differ the
\* report is marked incomplete and holds no errors and no mean, otherwise
\* it holds the errors |scheduled_i - actual_i| and their mean.
C28_StoppingAccuracy ==
  op.name = "evaluate" =>
    LET atStation == SelectSeq(op.log, LAMBDA row : row.status = StationStop)
        actual == Distinct([i \in 1..Len(atStation) |-> atStation[i].position])
        atRest == SelectSeq(op.time_table, LAMBDA row : row.speed = 0)
        scheduled == Distinct([i \in 1..Len(atRest) |-> atRest[i].position])
        gap(i) == IF scheduled[i] >= actual[i] THEN scheduled[i] - actual[i]
                  ELSE actual[i] - scheduled[i]
        r == op.result.results
    IN  IF Len(actual) # Len(scheduled)
          THEN /\ r.all_stops_done = "incomplete"
               /\ r.stopping_error = <<>>
               /\ r.mean_stopping_error = 0
          ELSE /\ r.all_stops_done = "complete"
               /\ r.stopping_error = [i \in 1..Len(scheduled) |-> gap(i)]
               /\ r.mean_stopping_error * Len(scheduled)
                    = SumSeq(r.stopping_error)

\* C29: the evaluation of any log against the timetable runs to its end and
\* shows a report.
C29_EvaluationCompletes ==
  op.name = "evaluate" => (op.result.error = "none" /\ op.result.report)

\* C30: whatever connected and disconnected signals come between the ticks,
\* a tick ends without an error and leaves the engine as the same tick leaves
\* it with no consumer ever connected; the sender stays as connected as it
\* was, and a tick that finds it not connected hands nothing to the socket.
C30_SnapshotExport ==
  Ticked =>
    LET alone == [pre EXCEPT
                    !.data_sender = [connected |-> FALSE, written |-> 0]]
        quiet == update(alone, op.dt, op.control_acc)
    IN  /\ op.message # "error"
        /\ op.message = quiet.message
        /\ \A field \in DOMAIN sim \ {"data_sender"} :
             sim[field] = quiet.sim[field]
        /\ sim.data_sender.connected = pre.data_sender.connected
        /\ ~pre.data_sender.connected
           => sim.data_sender.written = pre.data_sender.written

\* a tick that drops its snapshots after ticks whose snapshots were written
C30_Witness ==
  /\ Ticked
  /\ ~pre.data_sender.connected
  /\ pre.data_sender.written > 0
  /\ sim.data_sender.written = pre.data_sender.written
  /\ sim.time > pre.time

\* C31: a call of update that returns without an error appends exactly one
\* row to the log, the row of the state it leaves, on every path through
\* update; no other operation changes the log, and no row once written is
\* changed or removed.
C31_LogAppendOnly ==
  /\ Ticked
     => /\ Len(sim.log.rows) = Len(pre.log.rows) + 1
        /\ SubSeq(sim.log.rows, 1, Len(pre.log.rows)) = pre.log.rows
        /\ sim.log.rows[Len(sim.log.rows)].time = sim.time
        /\ sim.log.rows[Len(sim.log.rows)].position = sim.position
        /\ sim.log.rows[Len(sim.log.rows)].status = sim.status
  /\ ~Ticked => sim.log = pre.log

\* the tick on which a station dwell ends, after rows were written
C31_Witness ==
  /\ Ticked
  /\ pre.status = StationStop
  /\ sim.status = Coasting
  /\ Len(pre.log.rows) >= 2
  /\ Len(sim.log.rows) = Len(pre.log.rows) + 1

\* C32: a key command pressed in EmergencyBraking, PenaltyDelay or
\* StationStop, or while the simulation is not running or the mode is
\* automatic, leaves the condition, both commands, the speed and the position
\* as they were.
C32_SafetyPreemptsKeys ==
  (/\ op.name \in Keys
   /\ \/ pre.status \in {EmergencyBraking, PenaltyDelay, StationStop}
      \/ ~is_running
      \/ ~is_manual)
  => /\ sim.status = pre.status
     /\ sim.traction_acc = pre.traction_acc
     /\ sim.brake_acc = pre.brake_acc
     /\ sim.speed = pre.speed
     /\ sim.position = pre.position

\* the coast key pressed during an emergency braking of a running manual
\* drive, the train still moving
C32_Witness ==
  /\ op.name = "W"
  /\ is_running /\ is_manual
  /\ pre.status = EmergencyBraking
  /\ pre.speed > 0
  /\ sim.status = EmergencyBraking

\* C33: while the ticks keep coming, an engine in EmergencyBraking reaches
\* PenaltyDelay at speed 0, and an engine in PenaltyDelay reaches Coasting,
\* whatever keys are pressed and whatever control_acc the ticks carry.
C33_AtpSequenceCompletes ==
  /\ (sim.status = EmergencyBraking)
        ~> (sim.status = PenaltyDelay /\ sim.speed = 0)
  /\ (sim.status = PenaltyDelay) ~> (sim.status = Coasting)

\* the tick that ends the penalty of an emergency braking the ATP triggered
\* in this run
C33_Witness ==
  /\ Ticked
  /\ op.message = "penalty_end"
  /\ pre.status = PenaltyDelay
  /\ sim.status = Coasting
  /\ sim.speed = 0

\* C34: the position never decreases across a call of update, in any
\* condition, the ticks that enter a station stop and those that end a dwell
\* included.
C34_PositionMonotonic ==
  Ticked => sim.position >= pre.position

\* C35: between two resets the engine enters StationStop in the intermediate
\* band at most once.  stop_start is 0 after reset and positive after an
\* intermediate stop was entered: the tick that enters one starts with
\* stop_start = 0; the tick that ends its dwell leaves the train at
\* 22883.33 m; and once that stop is over the position stays above the band.
C35_IntermediateStopOnce ==
  /\ (Ticked /\ op.message = "stop_enter") => pre.stop_start = 0
  /\ (Ticked /\ op.message = "stop_end" /\ stop.band = "intermediate")
       => sim.position = DeparturePosition
  /\ (sim.stop_start > 0
      /\ ~(sim.status = StationStop /\ stop.band = "intermediate"
                                    /\ ~stop.left))
       => sim.position > MidBandHi

\* the train on its way past 22883.33 m after a stop at the intermediate
\* station that was entered and ended in this run
C35_Witness ==
  /\ Ticked
  /\ stop.band = "intermediate" /\ stop.left
  /\ stop.entered = sim.stop_start
  /\ sim.stop_start > 1030
  /\ sim.position > DeparturePosition

\* C36: the acceleration compute_control commands (last_acc, and the value
\* returned) lies within the output limits [-1.1, 1.1] after any sequence of
\* compute_control calls, parameter changes and resets from a fresh
\* controller.
C36_OutputWithinLimits ==
  /\ controller.output_limits[1] <= controller.last_acc
  /\ controller.last_acc <= controller.output_limits[2]
  /\ control.name = "compute"
       => /\ controller.output_limits[1] <= control.output
          /\ control.output <= controller.output_limits[2]

\* C37: the condition never changes between Traction and Braking in one
\* step.  Traction and Braking are entered from Coasting only, by the
\* traction key and the brake key, never by a tick; the traction key in
\* Braking and the brake key in Traction yield Coasting and clear the command
\* that was in force.
C37_ViaCoasting ==
  /\ (sim.status \in {Traction, Braking} /\ pre.status # sim.status)
       => /\ pre.status = Coasting
          /\ op.name = (IF sim.status = Traction THEN "Q" ELSE "E")
  /\ (op.name = "Q" /\ is_running /\ is_manual /\ pre.status = Braking)
       => sim.status = Coasting /\ sim.brake_acc = 0
  /\ (op.name = "E" /\ is_running /\ is_manual /\ pre.status = Traction)
       => sim.status = Coasting /\ sim.traction_acc = 0

\* the brake key pressed in Traction with a traction command in force
C37_Witness ==
  /\ op.name = "E"
  /\ is_running /\ is_manual
  /\ pre.status = Traction
  /\ pre.traction_acc > 0
  /\ sim.status = Coasting
  /\ sim.traction_acc = 0

\* C38: the traction command and the brake command are never both positive;
\* the traction command is positive in Traction only; both commands are 0 in
\* Coasting, PenaltyDelay and StationStop.
C38_CommandsExclusive ==
  /\ ~(sim.traction_acc > 0 /\ sim.brake_acc > 0)
  /\ sim.traction_acc > 0 => sim.status = Traction
  /\ sim.status \in {Coasting, PenaltyDelay, StationStop}
       => sim.traction_acc = 0 /\ sim.brake_acc = 0

\* the tick on which the ATP triggers in Traction with a traction command in
\* force
C38_Witness ==
  /\ Ticked
  /\ op.message = "atp"
  /\ pre.status = Traction
  /\ pre.traction_acc > 0
  /\ sim.status = EmergencyBraking
  /\ sim.traction_acc = 0

\* C39: on a tick without control_acc the speed rises only if the tick
\* starts in Traction: from Coasting, Braking, EmergencyBraking, PenaltyDelay
\* and StationStop the speed after the tick is at most the speed before; and
\* a train at rest in Coasting or Braking stays at speed 0 where it is.
C39_ManualSpeedRise ==
  /\ (Ticked /\ op.control_acc = <<>> /\ pre.status # Traction)
       => sim.speed <= pre.speed
  /\ (Ticked /\ op.control_acc = <<>> /\ pre.status \in {Coasting, Braking}
             /\ pre.speed = 0)
       => sim.speed = 0 /\ sim.position = pre.position

\* a tick of a moving train in Braking with a brake command in force
C39_Witness ==
  /\ Ticked
  /\ op.control_acc = <<>>
  /\ pre.status = Braking
  /\ pre.brake_acc > 0
  /\ pre.speed > 0
  /\ sim.speed < pre.speed
  /\ sim.position > pre.position

====
